---- MODULE Spec2Model ----
(***************************************************************************)
(* Order validation and request construction of the MT5 HTTP API           *)
(* (src/main.py): the helpers _normalize_price, _validate_volume,          *)
(* _validate_limit_price, _validate_stop_price, _validate_stops_distance   *)
(* and _build_order_request as operators, and the handlers                 *)
(* GET /validar-ordem and POST /ordem as a state machine whose steps are   *)
(* the calls they make to the terminal (the MetaTrader5 module).           *)
(*                                                                         *)
(* The terminal is outside the program: each call to it answers with       *)
(* whatever the terminal holds at that moment, so each answer is drawn     *)
(* anew from the set of possible answers.  Two calls of one request may    *)
(* thus see different quotes or constraints: every interleaving of the     *)
(* request with changes of the quote, the constraints, the connection and  *)
(* the symbol's visibility is a behaviour of the model.                    *)
(*                                                                         *)
(* Numbers.  Python floats are modelled by exact integers: a price is a    *)
(* count of price units, a volume a count of volume units.  The volume     *)
(* unit is chosen so that the step tolerance of line 91 (1e-6 of a step)   *)
(* is a whole number of units; the inputs stay off the exact boundary of   *)
(* that tolerance, where the float result depends on rounding error.       *)
(* An absent value (Python None) is the empty tuple, a present one a       *)
(* 1-tuple.                                                                *)
(***************************************************************************)
EXTENDS Integers, Sequences, FiniteSets, TLC

VARIABLES
    pc,           \* position of the request handler
    endpoint,     \* "GET /validar-ordem" or "POST /ordem"
    o,            \* the request's Ordem
    symbol,       \* handler local `symbol`: what symbol_info last returned
    tick,         \* handler local `tick`: what symbol_info_tick last returned
    validation,   \* what _validar_ordem returned (None before it returns)
    built,        \* what _build_order_request returned or raised (None before)
    calls,        \* terminal calls made while handling this request, in order
    checks,       \* validators run while handling this request, in order
    response,     \* the HTTP answer (None while the request is in flight)
    args,         \* a helper applied on its own: its name and arguments
    ret           \* a helper applied on its own: its result (None before)

vars == <<pc, endpoint, o, symbol, tick, validation, built, calls, checks,
          response, args, ret>>

-----------------------------------------------------------------------------
(* Optional values *)

None == <<>>
Some(v) == <<v>>
IsNone(x) == x = None
Get(x) == x[1]
Opt(S) == {None} \cup {Some(v) : v \in S}

Abs(x) == IF x < 0 THEN -x ELSE x

\* Python's round() of the quotient num/den: nearest integer, ties to even.
Round(num, den) ==
    LET n == IF den < 0 THEN -num ELSE num
        d == Abs(den)
        q == n \div d
        r == n % d
    IN  IF 2 * r < d THEN q
        ELSE IF 2 * r > d THEN q + 1
        ELSE IF q % 2 = 0 THEN q ELSE q + 1

-----------------------------------------------------------------------------
(* Program constants *)

\* abs(ratio - round(ratio)) > 1e-6: the tolerance is 1 / StepTolDenom of a step
StepTolDenom == 1000000

ORDER_TYPE_BUY == "ORDER_TYPE_BUY"
ORDER_TYPE_SELL == "ORDER_TYPE_SELL"
ORDER_TYPE_BUY_LIMIT == "ORDER_TYPE_BUY_LIMIT"
ORDER_TYPE_SELL_LIMIT == "ORDER_TYPE_SELL_LIMIT"
ORDER_TYPE_BUY_STOP == "ORDER_TYPE_BUY_STOP"
ORDER_TYPE_SELL_STOP == "ORDER_TYPE_SELL_STOP"

\* Verdict reasons: the (parameter-free part of the) messages of the source.
VolumeInfoUnavailable == "Informacoes de volume indisponiveis para o simbolo"
BelowMinimum == "Quantidade minima e {minv}"
AboveMaximum == "Quantidade maxima e {maxv}"
InvalidStep == "Quantidade deve respeitar o passo de {step}"
StepCheckFailed == "Falha ao validar o passo de volume"
NoTickForPrice == "Sem tick disponivel para validar preco"
LimitPriceTooHigh == "Preco limite de compra deve ser <= {tick.ask}"
LimitPriceTooLow == "Preco limite de venda deve ser >= {tick.bid}"
StopPriceTooLow == "Preco stop de compra deve ser >= {tick.ask}"
StopPriceTooHigh == "Preco stop de venda deve ser <= {tick.bid}"
StopOnWrongSide == "Stop loss deve ficar do lado oposto ao preco"
StopTooClose == "Distancia minima do SL e {min_dist}"
TakeProfitOnWrongSide == "Take profit deve ficar do lado esperado do preco"
TakeProfitTooClose == "Distancia minima do TP e {min_dist}"
NoTick == "Sem tick disponivel para o simbolo"
PriceRequiredLimit == "Campo 'preco' e obrigatorio para limite"
PriceRequiredStop == "Campo 'preco' e obrigatorio para stop"

Ok == [ok |-> TRUE, motivo |-> None]
Fail(msg) == [ok |-> FALSE, motivo |-> Some(msg)]

-----------------------------------------------------------------------------
(* Helpers (FUNCOES AUXILIARES) *)

_normalize_price(sym, price) ==
    LET point == sym.point
    IN  IF point <= 0 THEN price
        ELSE Round(price, point) * point

\* StepCheck with the ratio taken from the volume, not from (volume - minv).
StepCheck_NoOffset(minv, step, volume) ==
    IF step = 0 THEN Fail(StepCheckFailed)
    ELSE LET rem == Abs(volume - Round(volume, step) * step)
         IN  IF rem > Abs(step) \div StepTolDenom THEN Fail(InvalidStep)
             ELSE Ok

\* The step test of lines 89-97, for known constraints and min <= volume <= max.
\* ratio = (volume - minv) / step; a zero step raises ZeroDivisionError, which
\* the except clause turns into a rejection.
StepCheck(minv, step, volume) ==
    IF step = 0 THEN Fail(StepCheckFailed)
    ELSE LET num == volume - minv
             rem == Abs(num - Round(num, step) * step)
         IN  \* abs(ratio - round(ratio)) > 1e-6, times abs(step)
             IF rem > Abs(step) \div StepTolDenom THEN Fail(InvalidStep)
             ELSE Ok

\* _validate_volume with the maximum tested before the minimum.
_validate_volume_MaxFirst(sym, volume) ==
    LET minv == sym.volume_min
        maxv == sym.volume_max
        step == sym.volume_step
    IN  IF IsNone(minv) \/ IsNone(maxv) \/ IsNone(step)
            THEN Fail(VolumeInfoUnavailable)
        ELSE IF volume > Get(maxv) THEN Fail(AboveMaximum)
        ELSE IF volume < Get(minv) THEN Fail(BelowMinimum)
        ELSE StepCheck(Get(minv), Get(step), volume)

_validate_volume(sym, volume) ==
    LET minv == sym.volume_min
        maxv == sym.volume_max
        step == sym.volume_step
    IN  IF IsNone(minv) \/ IsNone(maxv) \/ IsNone(step)
            THEN Fail(VolumeInfoUnavailable)
        ELSE IF volume < Get(minv) THEN Fail(BelowMinimum)
        ELSE IF volume > Get(maxv) THEN Fail(AboveMaximum)
        ELSE StepCheck(Get(minv), Get(step), volume)

\* _validate_limit_price with price < ask in place of price <= ask.
_validate_limit_price_Strict(kind, price, tk) ==
    IF IsNone(tk) THEN Fail(NoTickForPrice)
    ELSE IF kind = "BUY_LIMIT" /\ ~(price < Get(tk).ask)
        THEN Fail(LimitPriceTooHigh)
    ELSE IF kind = "SELL_LIMIT" /\ ~(price >= Get(tk).bid)
        THEN Fail(LimitPriceTooLow)
    ELSE Ok

_validate_limit_price(kind, price, tk) ==
    IF IsNone(tk) THEN Fail(NoTickForPrice)
    ELSE IF kind = "BUY_LIMIT" /\ ~(price <= Get(tk).ask)
        THEN Fail(LimitPriceTooHigh)
    ELSE IF kind = "SELL_LIMIT" /\ ~(price >= Get(tk).bid)
        THEN Fail(LimitPriceTooLow)
    ELSE Ok

_validate_stop_price(kind, price, tk) ==
    IF IsNone(tk) THEN Fail(NoTickForPrice)
    ELSE IF kind = "BUY_STOP" /\ ~(price >= Get(tk).ask)
        THEN Fail(StopPriceTooLow)
    ELSE IF kind = "SELL_STOP" /\ ~(price <= Get(tk).bid)
        THEN Fail(StopPriceTooHigh)
    ELSE Ok

\* from_types of lines 141-148: the side of an order type (None if unknown).
from_types(order_type) ==
    IF order_type \in {ORDER_TYPE_BUY, ORDER_TYPE_BUY_LIMIT, ORDER_TYPE_BUY_STOP}
        THEN Some("buy")
    ELSE IF order_type \in {ORDER_TYPE_SELL, ORDER_TYPE_SELL_LIMIT,
                            ORDER_TYPE_SELL_STOP}
        THEN Some("sell")
    ELSE None

\* CheckSL with the side test dist < 0 in place of dist <= 0.
CheckSL_Strict(side, price, sl, min_dist) ==
    LET dist == IF side = "buy" THEN price - sl ELSE sl - price
    IN  IF dist < 0 THEN Fail(StopOnWrongSide)
        ELSE IF dist < min_dist THEN Fail(StopTooClose)
        ELSE Ok

\* Lines 153-158, for a supplied sl.
CheckSL(side, price, sl, min_dist) ==
    LET dist == IF side = "buy" THEN price - sl ELSE sl - price
    IN  IF dist <= 0 THEN Fail(StopOnWrongSide)
        ELSE IF dist < min_dist THEN Fail(StopTooClose)
        ELSE Ok

\* Lines 160-165, for a supplied tp.
CheckTP(side, price, tp, min_dist) ==
    LET dist == IF side = "buy" THEN tp - price ELSE price - tp
    IN  IF dist <= 0 THEN Fail(TakeProfitOnWrongSide)
        ELSE IF dist < min_dist THEN Fail(TakeProfitTooClose)
        ELSE Ok

_validate_stops_distance(sym, order_type, price, sl, tp) ==
    LET stops_level == sym.trade_stops_level
        point == sym.point
        min_dist == stops_level * point
        side == from_types(order_type)
        rsl == IF IsNone(sl) THEN Ok
               ELSE CheckSL(Get(side), price, Get(sl), min_dist)
        rtp == IF IsNone(tp) THEN Ok
               ELSE CheckTP(Get(side), price, Get(tp), min_dist)
    IN  IF stops_level <= 0 \/ point <= 0 THEN Ok
        ELSE IF IsNone(side) THEN Ok
        ELSE IF ~rsl.ok THEN rsl
        ELSE rtp

\* The outcome of a function that may raise HTTPException.
Raise(status, detail) == [raised |-> TRUE, status |-> status, detail |-> detail]
Return(v) == [raised |-> FALSE, value |-> v]

\* BuilderOrderType with the pending types of a sell order swapped.
BuilderOrderType_SellSwapped(ord) ==
    LET is_buy == ord.tipo = "compra"
    IN  IF ord.execucao = "mercado"
            THEN IF is_buy THEN ORDER_TYPE_BUY ELSE ORDER_TYPE_SELL
        ELSE IF ord.execucao = "limite"
            THEN IF is_buy THEN ORDER_TYPE_BUY_LIMIT ELSE ORDER_TYPE_SELL_STOP
        ELSE IF is_buy THEN ORDER_TYPE_BUY_STOP ELSE ORDER_TYPE_SELL_LIMIT

\* The order type selected by (tipo, execucao): lines 174, 180, 191.
BuilderOrderType(ord) ==
    LET is_buy == ord.tipo = "compra"
    IN  IF ord.execucao = "mercado"
            THEN IF is_buy THEN ORDER_TYPE_BUY ELSE ORDER_TYPE_SELL
        ELSE IF ord.execucao = "limite"
            THEN IF is_buy THEN ORDER_TYPE_BUY_LIMIT ELSE ORDER_TYPE_SELL_LIMIT
        ELSE IF is_buy THEN ORDER_TYPE_BUY_STOP ELSE ORDER_TYPE_SELL_STOP

\* The dict of lines 209-225; an sl/tp key that is not set is None.
BuildReq(ord, action, order_type, price, filling) ==
    [action |-> action,
     symbol |-> ord.ticker,
     volume |-> ord.quantidade,
     type |-> order_type,
     price |-> price,
     deviation |-> 20,
     magic |-> 1001,
     comment |-> <<"API_MT5_v2_", ord.execucao>>,
     type_time |-> "ORDER_TIME_GTC",
     type_filling |-> filling,
     sl |-> ord.sl,
     tp |-> ord.tp]

\* Lines 204-226: the stop-distance check and the request.
BuildTail(ord, sym, action, order_type, price, filling) ==
    LET r == _validate_stops_distance(sym, order_type, price, ord.sl, ord.tp)
    IN  IF ~r.ok THEN Raise(400, r.motivo)
        ELSE Return(BuildReq(ord, action, order_type, price, filling))

_build_order_request(ord, sym, tk) ==
    LET is_buy == ord.tipo = "compra"
        order_type == BuilderOrderType(ord)
    IN  IF ord.execucao = "mercado" THEN
            LET price == _normalize_price(sym,
                           IF is_buy THEN Get(tk).ask ELSE Get(tk).bid)
            IN  BuildTail(ord, sym, "TRADE_ACTION_DEAL", order_type, price,
                          "ORDER_FILLING_IOC")
        ELSE IF ord.execucao = "limite" THEN
            IF IsNone(ord.preco)
                THEN Raise(400, Some("Campo 'preco' e obrigatorio para ordens a limite"))
            ELSE LET price == _normalize_price(sym, Get(ord.preco))
                     kind == IF is_buy THEN "BUY_LIMIT" ELSE "SELL_LIMIT"
                     r == _validate_limit_price(kind, price, tk)
                 IN  IF ~r.ok THEN Raise(400, r.motivo)
                     ELSE BuildTail(ord, sym, "TRADE_ACTION_PENDING", order_type,
                                    price, "ORDER_FILLING_RETURN")
        ELSE IF ord.execucao = "stop" THEN
            IF IsNone(ord.preco)
                THEN Raise(400, Some("Campo 'preco' e obrigatorio para ordens stop"))
            ELSE LET price == _normalize_price(sym, Get(ord.preco))
                     kind == IF is_buy THEN "BUY_STOP" ELSE "SELL_STOP"
                     r == _validate_stop_price(kind, price, tk)
                 IN  IF ~r.ok THEN Raise(400, r.motivo)
                     ELSE BuildTail(ord, sym, "TRADE_ACTION_PENDING", order_type,
                                    price, "ORDER_FILLING_RETURN")
        ELSE Raise(400, Some("Valor invalido para 'execucao'"))

-----------------------------------------------------------------------------
(* _validar_ordem, between its calls to the terminal *)

\* "regras" of lines 242-246 and 292-296.
Regras(sym) ==
    [min |-> sym.volume_min, max |-> sym.volume_max, step |-> sym.volume_step]

\* A verdict (the dict _validar_ordem returns); regras is None when the dict
\* has no such key.  `ran` lists the validators that ran to produce it.
Verdict(ok, motivo, regras, ran) ==
    [ok |-> ok, motivo |-> motivo, regras |-> regras, ran |-> ran]

\* Lines 237-247: the volume check on the symbol just fetched.  `done` tells
\* whether _validar_ordem returns here.
VolumeStage(ord, sym) ==
    LET r == _validate_volume(sym, ord.quantidade)
    IN  [done |-> ~r.ok,
         verdict |-> Verdict(FALSE, r.motivo, Some(Regras(sym)),
                             <<"_validate_volume">>)]

\* Lines 272-279.
ValidarOrderType(ord) ==
    IF ord.execucao = "mercado" /\ ord.tipo = "compra" THEN ORDER_TYPE_BUY
    ELSE IF ord.execucao = "mercado" /\ ord.tipo = "venda" THEN ORDER_TYPE_SELL
    ELSE IF ord.execucao = "limite" /\ ord.tipo = "compra" THEN ORDER_TYPE_BUY_LIMIT
    ELSE IF ord.execucao = "limite" /\ ord.tipo = "venda" THEN ORDER_TYPE_SELL_LIMIT
    ELSE IF ord.execucao = "stop" /\ ord.tipo = "compra" THEN ORDER_TYPE_BUY_STOP
    ELSE ORDER_TYPE_SELL_STOP

\* Lines 280-284.
ref_price(ord, tk) ==
    IF ord.execucao = "mercado"
        THEN IF ord.tipo = "compra" THEN Get(tk).ask ELSE Get(tk).bid
    ELSE Get(ord.preco)

\* Lines 271-297: the stop-distance check and the admissible verdict.
StopsStage(ord, sym, tk, ran) ==
    LET r == _validate_stops_distance(sym, ValidarOrderType(ord),
                                      ref_price(ord, tk), ord.sl, ord.tp)
        ran2 == Append(ran, "_validate_stops_distance")
    IN  IF ~r.ok THEN Verdict(FALSE, r.motivo, None, ran2)
        ELSE Verdict(TRUE, None, Some(Regras(sym)), ran2)

\* Lines 257-259 and 265-267: the entry-price check of a limit or stop order
\* with a price: normalize the price, pick the kind, validate against the tick.
EntryPriceCheck(ord, sym, tk) ==
    LET price == _normalize_price(sym, Get(ord.preco))
    IN  IF ord.execucao = "limite"
            THEN _validate_limit_price(
                     IF ord.tipo = "compra" THEN "BUY_LIMIT" ELSE "SELL_LIMIT",
                     price, tk)
        ELSE _validate_stop_price(
                     IF ord.tipo = "compra" THEN "BUY_STOP" ELSE "SELL_STOP",
                     price, tk)

\* TickStage with the stop-distance check run even after the entry-price
\* check failed (the first reason is still the one returned).
TickStage_NoShortCircuit(ord, sym, tk, ran) ==
    IF IsNone(tk) THEN Verdict(FALSE, Some(NoTick), None, ran)
    ELSE IF ord.execucao \in {"limite", "stop"} THEN
        IF IsNone(ord.preco)
            THEN Verdict(FALSE,
                         Some(IF ord.execucao = "limite" THEN PriceRequiredLimit
                              ELSE PriceRequiredStop), None, ran)
        ELSE LET r == EntryPriceCheck(ord, sym, tk)
                 ran2 == Append(ran, IF ord.execucao = "limite"
                                         THEN "_validate_limit_price"
                                         ELSE "_validate_stop_price")
                 st == StopsStage(ord, sym, tk, ran2)
             IN  IF ~r.ok THEN Verdict(FALSE, r.motivo, None, st.ran)
                 ELSE st
    ELSE StopsStage(ord, sym, tk, ran)

\* Lines 250-297: what _validar_ordem returns once the tick is fetched.
\* `ran` lists the validators that ran before.
TickStage(ord, sym, tk, ran) ==
    IF IsNone(tk) THEN Verdict(FALSE, Some(NoTick), None, ran)
    ELSE IF ord.execucao = "limite" THEN
        IF IsNone(ord.preco)
            THEN Verdict(FALSE, Some(PriceRequiredLimit), None, ran)
        ELSE LET r == EntryPriceCheck(ord, sym, tk)
                 ran2 == Append(ran, "_validate_limit_price")
             IN  IF ~r.ok THEN Verdict(FALSE, r.motivo, None, ran2)
                 ELSE StopsStage(ord, sym, tk, ran2)
    ELSE IF ord.execucao = "stop" THEN
        IF IsNone(ord.preco)
            THEN Verdict(FALSE, Some(PriceRequiredStop), None, ran)
        ELSE LET r == EntryPriceCheck(ord, sym, tk)
                 ran2 == Append(ran, "_validate_stop_price")
             IN  IF ~r.ok THEN Verdict(FALSE, r.motivo, None, ran2)
                 ELSE StopsStage(ord, sym, tk, ran2)
    ELSE StopsStage(ord, sym, tk, ran)

-----------------------------------------------------------------------------
(* Requests and the terminal's answers, for the handler state machine *)

MaxReqVolume == 3       \* requested volumes: 1..MaxReqVolume half steps
MaxReqPrice == 3        \* bid, ask, preco, sl, tp: 1..MaxReqPrice price units
MaxReqPoint == 2        \* the symbol's point: 0 (unknown) or MaxReqPoint
MaxReqStopsLevel == 1   \* the symbol's trade_stops_level: 0..MaxReqStopsLevel

\* One volume step of the symbols below, in volume units.
ReqStep == 2 * StepTolDenom

ReqVolumes == {k * StepTolDenom : k \in 1..MaxReqVolume}
ReqPrices == 1..MaxReqPrice

Ordem(ticker, tipo, quantidade, execucao, preco, sl, tp) ==
    [ticker |-> ticker, tipo |-> tipo, quantidade |-> quantidade,
     execucao |-> execucao, preco |-> preco, sl |-> sl, tp |-> tp]

ReqOrders ==
    {Ordem("TICKER", tipo, q, ex, preco, sl, tp) :
        tipo \in {"compra", "venda"}, q \in ReqVolumes,
        ex \in {"mercado", "limite", "stop"},
        preco \in Opt({MaxReqPrice - 1, MaxReqPrice}),
        sl \in Opt({1}), tp \in Opt({MaxReqPrice})}

\* symbol_info(): the fields the handlers read.
SymbolInfo(minv, maxv, step, point, level, visible) ==
    [volume_min |-> minv, volume_max |-> maxv, volume_step |-> step,
     point |-> point, trade_stops_level |-> level, visible |-> visible]

\* The answers of symbol_info: no such symbol, or its constraints.
ReqSymbols ==
    {None} \cup
    {Some(SymbolInfo(Some(ReqStep), Some(2 * ReqStep), step, point, level, vis)) :
        step \in {Some(0), Some(ReqStep)}, point \in {0, MaxReqPoint},
        level \in 0..MaxReqStopsLevel, vis \in BOOLEAN}

Tick(bid, ask) == [bid |-> bid, ask |-> ask]

\* The answers of symbol_info_tick: no tick, or a quote with bid < ask.
ReqTicks == {None} \cup {Some(Tick(b, b + 1)) : b \in 1..(MaxReqPrice - 1)}

-----------------------------------------------------------------------------
(* The handlers *)

Endpoints == {"GET /validar-ordem", "POST /ordem"}

Called(c) == calls' = calls \o c

\* raise HTTPException(status, detail), or return: the request is answered.
Answer(status, body) ==
    /\ response' = Some([status |-> status, body |-> body])
    /\ pc' = "done"

\* ReturnVerdict with ordem going on to submit whatever the verdict.
ReturnVerdict_IgnoresVerdict(v) ==
    /\ validation' = Some(v)
    /\ checks' = v.ran
    /\ IF endpoint = "GET /validar-ordem" THEN Answer(200, Some(v))
       ELSE pc' = "ordem:ensure_mt5" /\ response' = response

\* ReturnVerdict with ordem answering a rejected verdict as validar_ordem does.
ReturnVerdict_AlwaysReturns(v) ==
    /\ validation' = Some(v)
    /\ checks' = v.ran
    /\ IF endpoint = "GET /validar-ordem" \/ ~v.ok THEN Answer(200, Some(v))
       ELSE pc' = "ordem:ensure_mt5" /\ response' = response

\* _validar_ordem returns v to its caller, which carries on at once:
\* validar_ordem (line 521) answers with the verdict; ordem (lines 527-529)
\* raises 400 on a verdict that is not ok and otherwise goes on to submit.
ReturnVerdict(v) ==
    /\ validation' = Some(v)
    /\ checks' = v.ran
    /\ IF endpoint = "GET /validar-ordem" THEN Answer(200, Some(v))
       ELSE IF ~v.ok THEN Answer(400, v.motivo)
       ELSE pc' = "ordem:ensure_mt5" /\ response' = response

\* ensure_mt5 (lines 46-56): passes when the account is there; otherwise
\* initializes and polls account_info up to 10 times.
ensure_mt5(next) ==
    \/ /\ Called(<<"account_info">>)      \* connected
       /\ pc' = next
       /\ UNCHANGED response
    \/ /\ Called(<<"account_info", "initialize">>)       \* initialize() fails
       /\ Answer(500, Some("Erro ao inicializar MT5"))
    \/ /\ Called(<<"account_info", "initialize", "account_info">>)
       /\ pc' = next                      \* the account shows up while polling
       /\ UNCHANGED response
    \/ /\ Called(<<"account_info", "initialize", "account_info">>)
       /\ Answer(500, Some("MT5 nao conectado"))     \* ten polls, no account

\* ativar_simbolo (lines 59-66) when symbol_info answers info.
ativar_simbolo(info, next) ==
    \/ /\ IsNone(info)
       /\ Called(<<"symbol_info">>)
       /\ Answer(404, Some("Simbolo nao existe neste servidor"))
    \/ /\ ~IsNone(info) /\ Get(info).visible
       /\ Called(<<"symbol_info">>)
       /\ pc' = next
       /\ UNCHANGED response
    \/ /\ ~IsNone(info) /\ ~Get(info).visible        \* symbol_select succeeds
       /\ Called(<<"symbol_info", "symbol_select">>)
       /\ pc' = next
       /\ UNCHANGED response
    \/ /\ ~IsNone(info) /\ ~Get(info).visible        \* symbol_select fails
       /\ Called(<<"symbol_info", "symbol_select">>)
       /\ Answer(500, Some("Falha ao ativar simbolo"))

\* _validar_ordem, line 230.
ValidarEnsure ==
    /\ pc = "validar:ensure_mt5"
    /\ ensure_mt5("validar:ativar_simbolo")
    /\ UNCHANGED <<endpoint, o, symbol, tick, validation, built,
                   checks, args, ret>>

\* _validar_ordem, line 231.
ValidarAtivar ==
    /\ pc = "validar:ativar_simbolo"
    /\ \E info \in ReqSymbols : ativar_simbolo(info, "validar:symbol_info")
    /\ UNCHANGED <<endpoint, o, symbol, tick, validation, built,
                   checks, args, ret>>

\* _validar_ordem, lines 233-247: fetch the symbol and check the volume.
ValidarSymbol ==
    /\ pc = "validar:symbol_info"
    /\ Called(<<"symbol_info">>)
    /\ \E info \in ReqSymbols :
        /\ symbol' = info
        /\ IF IsNone(info)
               THEN /\ Answer(404, Some("Simbolo nao encontrado"))
                    /\ UNCHANGED <<validation, checks>>
           ELSE LET st == VolumeStage(o, Get(info))
                IN  IF st.done THEN ReturnVerdict(st.verdict)
                    ELSE /\ pc' = "validar:symbol_info_tick"
                         /\ checks' = st.verdict.ran
                         /\ UNCHANGED <<validation, response>>
    /\ UNCHANGED <<endpoint, o, tick, built, args, ret>>

\* _validar_ordem, lines 249-297: fetch the tick and run the remaining checks.
ValidarTick ==
    /\ pc = "validar:symbol_info_tick"
    /\ Called(<<"symbol_info_tick">>)
    /\ \E tk \in ReqTicks :
        /\ tick' = tk
        /\ ReturnVerdict(TickStage(o, Get(symbol), tk, checks))
    /\ UNCHANGED <<endpoint, o, symbol, built, args, ret>>

\* ordem, line 531.
OrdemEnsure ==
    /\ pc = "ordem:ensure_mt5"
    /\ ensure_mt5("ordem:ativar_simbolo")
    /\ UNCHANGED <<endpoint, o, symbol, tick, validation, built,
                   checks, args, ret>>

\* ordem, line 532.
OrdemAtivar ==
    /\ pc = "ordem:ativar_simbolo"
    /\ \E info \in ReqSymbols : ativar_simbolo(info, "ordem:symbol_info_tick")
    /\ UNCHANGED <<endpoint, o, symbol, tick, validation, built,
                   checks, args, ret>>

\* ordem, lines 534-536.
OrdemTick ==
    /\ pc = "ordem:symbol_info_tick"
    /\ Called(<<"symbol_info_tick">>)
    /\ \E tk \in ReqTicks :
        /\ tick' = tk
        /\ IF IsNone(tk) THEN Answer(404, Some("Sem dados"))
           ELSE pc' = "ordem:symbol_info" /\ UNCHANGED response
    /\ UNCHANGED <<endpoint, o, symbol, validation, built,
                   checks, args, ret>>

\* ordem, lines 538-542: fetch the symbol and build the request.
OrdemBuild ==
    /\ pc = "ordem:symbol_info"
    /\ Called(<<"symbol_info">>)
    /\ \E info \in ReqSymbols :
        /\ symbol' = info
        /\ IF IsNone(info)
               THEN Answer(404, Some("Simbolo nao encontrado")) /\ UNCHANGED built
           ELSE LET b == _build_order_request(o, Get(info), tick)
                IN  /\ built' = Some(b)
                    /\ IF b.raised THEN Answer(b.status, b.detail)
                       ELSE pc' = "ordem:order_send" /\ UNCHANGED response
    /\ UNCHANGED <<endpoint, o, tick, validation, checks, args, ret>>

\* ordem, lines 544-547: submit; a falsy result is answered with 500.
OrdemSend ==
    /\ pc = "ordem:order_send"
    /\ Called(<<"order_send">>)
    /\ \/ Answer(200, Some("result"))
       \/ Answer(500, Some("Erro ao enviar ordem"))
    /\ UNCHANGED <<endpoint, o, symbol, tick, validation, built,
                   checks, args, ret>>

\* A request arrives: nothing of an earlier request is left.
Init ==
    /\ pc = "validar:ensure_mt5"
    /\ endpoint \in Endpoints
    /\ o \in ReqOrders
    /\ symbol = None /\ tick = None /\ validation = None /\ built = None
    /\ calls = <<>> /\ checks = <<>> /\ response = None
    /\ args = None /\ ret = None

Next ==
    \/ ValidarEnsure \/ ValidarAtivar \/ ValidarSymbol \/ ValidarTick
    \/ OrdemEnsure \/ OrdemAtivar \/ OrdemTick \/ OrdemBuild \/ OrdemSend

Spec == Init /\ [][Next]_vars

-----------------------------------------------------------------------------
(* The helpers applied on their own, to arguments drawn from bounded sets *)

MaxVolHalfSteps == 7    \* volumes: about 1..MaxVolHalfSteps half steps
MaxVolDelta == 2        \* ... give or take 0 and the first MaxVolDelta odd numbers
MaxVolMult == 2         \* volume_min, volume_step: 1..MaxVolMult base steps
MaxPrice == 4           \* prices: 1..MaxPrice price units
MaxPoint == 3           \* point: 0..MaxPoint price units
MaxStopsLevel == 2      \* trade_stops_level: 0..MaxStopsLevel

\* Volumes at and a few units around the multiples of half a base step.  The
\* base step is 2 * StepTolDenom units, so that an odd number of units off a
\* multiple of a step is never exactly 1e-6 of a step.
VolDeltas == {0} \cup {s * (2 * i - 1) : i \in 1..MaxVolDelta, s \in {-1, 1}}
Volumes == {h * StepTolDenom + d : h \in 1..MaxVolHalfSteps, d \in VolDeltas}
VolMins == Opt({k * ReqStep : k \in 1..MaxVolMult})
VolMaxs == Opt({k * ReqStep : k \in 1..(MaxVolMult + 1)})
VolSteps == Opt({k * ReqStep : k \in 0..MaxVolMult})

Prices == 1..MaxPrice
Points == 0..MaxPoint
StopsLevels == 0..MaxStopsLevel
Ticks == {None} \cup {Some(Tick(b, b + 1)) : b \in 1..(MaxPrice - 1)}
PriceSymbols ==
    {SymbolInfo(Some(ReqStep), Some(2 * ReqStep), Some(ReqStep), point, level, TRUE) :
        point \in Points, level \in StopsLevels}
OrderTypes ==
    {ORDER_TYPE_BUY, ORDER_TYPE_SELL, ORDER_TYPE_BUY_LIMIT, ORDER_TYPE_SELL_LIMIT,
     ORDER_TYPE_BUY_STOP, ORDER_TYPE_SELL_STOP}

HelperFns ==
    {"_validate_volume", "EntryPriceCheck", "_validate_stops_distance",
     "_build_order_request"}

\* The applications of the helper fn: its name and arguments.
HelperCalls(fn) ==
    CASE fn = "_validate_volume" ->
           {[fn |-> fn, symbol |-> SymbolInfo(minv, maxv, step, 0, 0, TRUE),
             volume |-> q] :
               minv \in VolMins, maxv \in VolMaxs, step \in VolSteps, q \in Volumes}
      [] fn = "EntryPriceCheck" ->
           {[fn |-> fn,
             o |-> Ordem("TICKER", tipo, ReqStep, ex, Some(p), None, None),
             symbol |-> sym, tick |-> tk] :
               tipo \in {"compra", "venda"}, ex \in {"limite", "stop"},
               p \in Prices, sym \in PriceSymbols, tk \in Ticks}
      [] fn = "_validate_stops_distance" ->
           {[fn |-> fn, symbol |-> sym, order_type |-> ot, price |-> p,
             sl |-> sl, tp |-> tp] :
               sym \in PriceSymbols, ot \in OrderTypes, p \in Prices,
               sl \in Opt(Prices), tp \in Opt(Prices)}
      [] fn = "_build_order_request" ->
           {[fn |-> fn, o |-> Ordem("TICKER", tipo, ReqStep, ex, preco, sl, tp),
             symbol |-> sym, tick |-> tk] :
               tipo \in {"compra", "venda"}, ex \in {"mercado", "limite", "stop"},
               preco \in Opt(Prices), sl \in Opt(Prices), tp \in Opt(Prices),
               sym \in PriceSymbols, tk \in Ticks \ {None}}

\* What a helper's application leaves alone.
HelperFrame ==
    UNCHANGED <<endpoint, o, symbol, tick, validation, built, calls, checks,
                response, args>>

Calling(fn) == pc = "call" /\ ~IsNone(args) /\ Get(args).fn = fn

ApplyValidateVolume ==
    /\ Calling("_validate_volume")
    /\ ret' = Some(_validate_volume(Get(args).symbol, Get(args).volume))
    /\ pc' = "return"
    /\ HelperFrame

ApplyEntryPriceCheck ==
    /\ Calling("EntryPriceCheck")
    /\ ret' = Some(EntryPriceCheck(Get(args).o, Get(args).symbol, Get(args).tick))
    /\ pc' = "return"
    /\ HelperFrame

ApplyValidateStopsDistance ==
    /\ Calling("_validate_stops_distance")
    /\ ret' = Some(_validate_stops_distance(Get(args).symbol, Get(args).order_type,
                                            Get(args).price, Get(args).sl,
                                            Get(args).tp))
    /\ pc' = "return"
    /\ HelperFrame

ApplyBuildOrderRequest ==
    /\ Calling("_build_order_request")
    /\ ret' = Some(_build_order_request(Get(args).o, Get(args).symbol,
                                        Get(args).tick))
    /\ pc' = "return"
    /\ HelperFrame

HelperInit ==
    /\ pc = "call"
    /\ \E fn \in HelperFns : args \in {Some(c) : c \in HelperCalls(fn)}
    /\ ret = None
    /\ endpoint = "none" /\ o = None
    /\ symbol = None /\ tick = None /\ validation = None /\ built = None
    /\ calls = <<>> /\ checks = <<>> /\ response = None

HelperNext ==
    \/ ApplyValidateVolume \/ ApplyEntryPriceCheck
    \/ ApplyValidateStopsDistance \/ ApplyBuildOrderRequest

SpecHelpers == HelperInit /\ [][HelperNext]_vars

\* The call whose result is in ret.
Returned(fn) == pc = "return" /\ Get(args).fn = fn

-----------------------------------------------------------------------------
(* _validar_ordem and _build_order_request on one snapshot of the terminal *)

\* _validar_ordem (lines 229-297) on a connected terminal that knows the
\* symbol and answers every call from one snapshot: symbol_info answers sym,
\* symbol_info_tick answers tk.
_validar_ordem(ord, sym, tk) ==
    LET st == VolumeStage(ord, sym)
    IN  IF st.done THEN st.verdict
        ELSE TickStage(ord, sym, tk, st.verdict.ran)

\* The price _build_order_request hands to _validate_stops_distance (line 205)
\* and puts in the request: the normalized quote side (lines 175-176) or the
\* normalized requested price (lines 183, 194).
BuilderPrice(ord, sym, tk) ==
    IF ord.execucao = "mercado"
        THEN _normalize_price(sym, IF ord.tipo = "compra" THEN Get(tk).ask
                                   ELSE Get(tk).bid)
    ELSE _normalize_price(sym, Get(ord.preco))

\* The intents: every side and execution style, with and without a price, a
\* stop loss and a take profit, for a volume the symbols below admit.
SnapshotOrders ==
    {Ordem("TICKER", tipo, ReqStep, ex, preco, sl, tp) :
        tipo \in {"compra", "venda"}, ex \in {"mercado", "limite", "stop"},
        preco \in Opt(Prices), sl \in Opt(Prices), tp \in Opt(Prices)}

\* What the two steps below leave alone.
SnapshotFrame ==
    UNCHANGED <<endpoint, o, symbol, tick, calls, checks, response, args, ret>>

\* _validar_ordem answers from the snapshot; as in ordem (lines 527-529) only
\* an admissible verdict goes on to the builder.
ValidarOnSnapshot ==
    /\ pc = "snapshot:_validar_ordem"
    /\ LET v == _validar_ordem(o, Get(symbol), tick)
       IN  /\ validation' = Some(v)
           /\ pc' = IF v.ok THEN "snapshot:_build_order_request"
                    ELSE "snapshot:done"
    /\ UNCHANGED built
    /\ SnapshotFrame

\* _build_order_request is called with the same intent, symbol and tick.
BuildOnSnapshot ==
    /\ pc = "snapshot:_build_order_request"
    /\ built' = Some(_build_order_request(o, Get(symbol), tick))
    /\ pc' = "snapshot:done"
    /\ UNCHANGED validation
    /\ SnapshotFrame

SnapshotInit ==
    /\ pc = "snapshot:_validar_ordem"
    /\ o \in SnapshotOrders
    /\ symbol \in {Some(sym) : sym \in PriceSymbols}
    /\ tick \in Ticks
    /\ validation = None /\ built = None
    /\ endpoint = "none"
    /\ calls = <<>> /\ checks = <<>> /\ response = None
    /\ args = None /\ ret = None

SnapshotNext == ValidarOnSnapshot \/ BuildOnSnapshot

SpecSnapshot == SnapshotInit /\ [][SnapshotNext]_vars

-----------------------------------------------------------------------------
(* Properties of the handlers (specification Spec) *)

Last(seq) == seq[Len(seq)]
Has(seq, x) == \E i \in 1..Len(seq) : seq[i] = x

Submitted == Has(calls, "order_send")
Admissible == ~IsNone(validation) /\ Get(validation).ok
Rejected == ~IsNone(validation) /\ ~Get(validation).ok
Answered == ~IsNone(response)

VolumeReasons ==
    {VolumeInfoUnavailable, BelowMinimum, AboveMaximum, InvalidStep, StepCheckFailed}
EntryPriceReasons ==
    {NoTickForPrice, LimitPriceTooHigh, LimitPriceTooLow, StopPriceTooLow,
     StopPriceTooHigh}
StopsReasons ==
    {StopOnWrongSide, StopTooClose, TakeProfitOnWrongSide, TakeProfitTooClose}

\* C1: in POST /ordem, order_send is called only after _validar_ordem, run for
\* this request, returned an admissible verdict and _build_order_request
\* returned a request without raising, whatever the terminal answered in
\* between; after a rejected verdict neither the builder nor order_send runs.
C1_SubmitOnlyAfterAdmissibleAndBuilt ==
    /\ (Submitted \/ pc = "ordem:order_send") =>
           /\ endpoint = "POST /ordem"
           /\ Admissible
           /\ ~IsNone(built) /\ ~Get(built).raised
    /\ ~IsNone(built) => Admissible
    /\ Rejected => IsNone(built) /\ ~Submitted /\ pc = "done"

\* C1 witness: an order was submitted and acknowledged.
C1_Witness ==
    /\ Submitted /\ Admissible
    /\ Answered /\ Get(response).status = 200
    /\ endpoint = "POST /ordem"

C8_Original ==
    (Rejected /\ Get(validation).motivo \in
                     {Some(PriceRequiredLimit), Some(PriceRequiredStop)})
        => calls = <<>>

\* C9: once a check of _validar_ordem fails, the verdict is rejected with that
\* check's reason, no later check runs and no further terminal call is made:
\* a volume failure is returned without fetching the tick, an entry-price
\* failure without running the stop-distance check.
C9_ShortCircuit ==
    Rejected =>
        LET v == Get(validation)
            r == Get(v.motivo)
        IN  /\ pc = "done"
            /\ checks = v.ran
            /\ r \in VolumeReasons =>
                   /\ checks = <<"_validate_volume">>
                   /\ r = Get(_validate_volume(Get(symbol), o.quantidade).motivo)
                   /\ IsNone(tick) /\ ~Has(calls, "symbol_info_tick")
                   /\ Last(calls) = "symbol_info"
            /\ r \notin VolumeReasons =>
                   /\ Last(calls) = "symbol_info_tick"
                   /\ ~Has(SubSeq(calls, 1, Len(calls) - 1), "symbol_info_tick")
            /\ r \in {NoTick, PriceRequiredLimit, PriceRequiredStop} =>
                   checks = <<"_validate_volume">>
            /\ r \in EntryPriceReasons =>
                   /\ Len(checks) = 2
                   /\ checks[2] = IF o.execucao = "limite"
                                      THEN "_validate_limit_price"
                                      ELSE "_validate_stop_price"
                   /\ r = Get(EntryPriceCheck(o, Get(symbol), tick).motivo)
                   /\ ~Has(checks, "_validate_stops_distance")
            /\ r \in StopsReasons =>
                   /\ Last(checks) = "_validate_stops_distance"
                   /\ o.execucao # "mercado" =>
                          EntryPriceCheck(o, Get(symbol), tick).ok

\* C9 witness: an entry-price failure of an order that carries a stop loss,
\* which the stop-distance check would have looked at.
C9_Witness ==
    /\ Rejected
    /\ Get(Get(validation).motivo) \in EntryPriceReasons
    /\ ~IsNone(o.sl)
    /\ Get(symbol).trade_stops_level > 0 /\ Get(symbol).point > 0

\* C10 as stated: with a zero volume step the failed step check is surfaced
\* as a server error (constraints malformed), not as a validation rejection.
C10_Original ==
    (~IsNone(validation) /\ Get(validation).motivo = Some(StepCheckFailed))
        => Answered /\ Get(response).status = 500

-----------------------------------------------------------------------------
(* Properties of the helpers (specification SpecHelpers) *)

Arg == Get(args)
Result == Get(ret)

\* x is an integer multiple of s.
IsMultiple(x, s) == IF s = 0 THEN x = 0 ELSE x % Abs(s) = 0

\* The distance from x to the nearest integer multiple of s # 0.
DistToMultiple(x, s) ==
    LET m == x % Abs(s)
    IN  IF m <= Abs(s) - m THEN m ELSE Abs(s) - m

\* x is within 1e-6 of a step of an integer multiple of the step s # 0.
WithinTolerance(x, s) == DistToMultiple(x, s) <= Abs(s) \div StepTolDenom

VolumeKnown(sym) ==
    ~IsNone(sym.volume_min) /\ ~IsNone(sym.volume_max) /\ ~IsNone(sym.volume_step)

\* C2 as stated: the rules in order, first failure only, the step rule being
\* "(quantity - min) is not an integer multiple of step", and every quantity
\* in [min, max] with (quantity - min) a multiple of step accepted.
C2_Original ==
    Returned("_validate_volume") =>
        LET sym == Arg.symbol
            q == Arg.volume
        IN  Result =
                IF ~VolumeKnown(sym) THEN Fail(VolumeInfoUnavailable)
                ELSE IF q < Get(sym.volume_min) THEN Fail(BelowMinimum)
                ELSE IF q > Get(sym.volume_max) THEN Fail(AboveMaximum)
                ELSE IF ~IsMultiple(q - Get(sym.volume_min), Get(sym.volume_step))
                    THEN Fail(InvalidStep)
                ELSE Ok

\* C2 amended: the rules in order, first failure only: min, max or step
\* missing gives ConstraintsUnavailable; else quantity < min gives
\* BelowMinimum; else quantity > max gives AboveMaximum; else a zero step
\* gives the step-check failure ("Falha ao validar o passo de volume"); else
\* (quantity - min) farther than 1e-6 of a step from every integer multiple of
\* step gives InvalidStep; every other quantity is accepted with no reason.
C2_VolumeRulesInOrder ==
    Returned("_validate_volume") =>
        LET sym == Arg.symbol
            q == Arg.volume
        IN  Result =
                IF ~VolumeKnown(sym) THEN Fail(VolumeInfoUnavailable)
                ELSE IF q < Get(sym.volume_min) THEN Fail(BelowMinimum)
                ELSE IF q > Get(sym.volume_max) THEN Fail(AboveMaximum)
                ELSE IF Get(sym.volume_step) = 0 THEN Fail(StepCheckFailed)
                ELSE IF ~WithinTolerance(q - Get(sym.volume_min),
                                         Get(sym.volume_step))
                    THEN Fail(InvalidStep)
                ELSE Ok

\* C2 witness: a quantity above min, an exact multiple of a nonzero step away
\* from it, was accepted.
C2_Witness ==
    /\ Returned("_validate_volume")
    /\ Result = Ok
    /\ Arg.volume > Get(Arg.symbol.volume_min)
    /\ Get(Arg.symbol.volume_step) # 0
    /\ IsMultiple(Arg.volume - Get(Arg.symbol.volume_min),
                  Get(Arg.symbol.volume_step))

\* (quantity - min) is not a multiple of step, outside the tolerance.
OffStep(sym, q) ==
    LET x == q - Get(sym.volume_min)
        s == Get(sym.volume_step)
    IN  IF s = 0 THEN x # 0 ELSE ~WithinTolerance(x, s)

\* C3 as stated: every quantity with (quantity - min) not a multiple of step
\* (outside tolerance) is rejected with InvalidStep.
C3_Original ==
    (/\ Returned("_validate_volume")
     /\ ~IsNone(Arg.symbol.volume_min) /\ ~IsNone(Arg.symbol.volume_step)
     /\ OffStep(Arg.symbol, Arg.volume))
        => Result = Fail(InvalidStep)

\* C3 amended: every quantity in [min, max], the constraints being fully
\* known, with (quantity - min) not a multiple of step (outside tolerance) is
\* rejected: with InvalidStep when the step is not zero, with the step-check
\* failure when it is zero.
C3_OffStepRejected ==
    (/\ Returned("_validate_volume")
     /\ VolumeKnown(Arg.symbol)
     /\ Get(Arg.symbol.volume_min) <= Arg.volume
     /\ Arg.volume <= Get(Arg.symbol.volume_max)
     /\ OffStep(Arg.symbol, Arg.volume))
        => Result = IF Get(Arg.symbol.volume_step) = 0 THEN Fail(StepCheckFailed)
                    ELSE Fail(InvalidStep)

\* C3 witness: a quantity in range, a few units off a multiple of the step,
\* was rejected with InvalidStep.
C3_Witness ==
    /\ Returned("_validate_volume")
    /\ Result = Fail(InvalidStep)
    /\ DistToMultiple(Arg.volume - Get(Arg.symbol.volume_min),
                      Get(Arg.symbol.volume_step)) < StepTolDenom \div 2

\* C4: for a limit or stop order with a quote present, the entry-price check
\* admits exactly: buy limit, price <= ask; sell limit, price >= bid; buy
\* stop, price >= ask; sell stop, price <= bid; price being the requested
\* price after normalization.  Every other price is rejected, with the reason
\* of its kind.
C4_EntryPriceAdmitsExactly ==
    (Returned("EntryPriceCheck") /\ ~IsNone(Arg.tick)) =>
        LET price == _normalize_price(Arg.symbol, Get(Arg.o.preco))
            bid == Get(Arg.tick).bid
            ask == Get(Arg.tick).ask
            buy == Arg.o.tipo = "compra"
            limit == Arg.o.execucao = "limite"
            admitted == IF limit THEN IF buy THEN price <= ask ELSE price >= bid
                        ELSE IF buy THEN price >= ask ELSE price <= bid
            reason == IF limit
                         THEN IF buy THEN LimitPriceTooHigh ELSE LimitPriceTooLow
                      ELSE IF buy THEN StopPriceTooLow ELSE StopPriceTooHigh
        IN  Result = IF admitted THEN Ok ELSE Fail(reason)

\* C4 witness: a buy limit whose requested price is not above the ask but
\* whose normalized price is, rejected.
C4_Witness ==
    /\ Returned("EntryPriceCheck") /\ ~IsNone(Arg.tick)
    /\ Arg.o.tipo = "compra" /\ Arg.o.execucao = "limite"
    /\ Get(Arg.o.preco) <= Get(Arg.tick).ask
    /\ Result = Fail(LimitPriceTooHigh)

BuySide(order_type) ==
    order_type \in {ORDER_TYPE_BUY, ORDER_TYPE_BUY_LIMIT, ORDER_TYPE_BUY_STOP}

\* C5 as stated: for a buy-side order a supplied stop loss at or above the
\* reference price is rejected with StopOnWrongSide, whatever the symbol's
\* constraints.
C5_Original ==
    (/\ Returned("_validate_stops_distance")
     /\ BuySide(Arg.order_type)
     /\ ~IsNone(Arg.sl) /\ Get(Arg.sl) >= Arg.price)
        => Result = Fail(StopOnWrongSide)

\* C5 amended: for a buy-side order a supplied stop loss at or above the
\* reference price is rejected with StopOnWrongSide, regardless of distance,
\* whenever the symbol's stops level and point are both positive; when either
\* is not positive or unknown the validator enforces nothing and accepts.
C5_BuyStopLossWrongSide ==
    (/\ Returned("_validate_stops_distance")
     /\ BuySide(Arg.order_type)
     /\ ~IsNone(Arg.sl) /\ Get(Arg.sl) >= Arg.price)
        => Result = IF Arg.symbol.trade_stops_level > 0 /\ Arg.symbol.point > 0
                        THEN Fail(StopOnWrongSide)
                    ELSE Ok

\* C5 witness: a buy order with the stop loss exactly at the reference price
\* and a take profit on the right side, rejected with StopOnWrongSide.
C5_Witness ==
    /\ Returned("_validate_stops_distance")
    /\ BuySide(Arg.order_type)
    /\ ~IsNone(Arg.sl) /\ Get(Arg.sl) = Arg.price
    /\ ~IsNone(Arg.tp) /\ Get(Arg.tp) > Arg.price
    /\ Result = Fail(StopOnWrongSide)

\* C6: a request returned by _build_order_request has: for a market order,
\* action = deal, price = the normalized ask (buy) or bid (sell), filling =
\* IOC; for a limit or stop order, action = pending, price = the normalized
\* requested price, filling = RETURN; and the type given by (side, style).
C6_BuilderFields ==
    (Returned("_build_order_request") /\ ~Result.raised) =>
        LET req == Result.value
            ord == Arg.o
            buy == ord.tipo = "compra"
        IN  /\ req.type =
                   CASE ord.execucao = "mercado" /\ buy -> ORDER_TYPE_BUY
                     [] ord.execucao = "mercado" /\ ~buy -> ORDER_TYPE_SELL
                     [] ord.execucao = "limite" /\ buy -> ORDER_TYPE_BUY_LIMIT
                     [] ord.execucao = "limite" /\ ~buy -> ORDER_TYPE_SELL_LIMIT
                     [] ord.execucao = "stop" /\ buy -> ORDER_TYPE_BUY_STOP
                     [] ord.execucao = "stop" /\ ~buy -> ORDER_TYPE_SELL_STOP
            /\ IF ord.execucao = "mercado"
                   THEN /\ req.action = "TRADE_ACTION_DEAL"
                        /\ req.price =
                               _normalize_price(Arg.symbol,
                                   IF buy THEN Get(Arg.tick).ask
                                   ELSE Get(Arg.tick).bid)
                        /\ req.type_filling = "ORDER_FILLING_IOC"
               ELSE /\ req.action = "TRADE_ACTION_PENDING"
                    /\ req.price = _normalize_price(Arg.symbol, Get(ord.preco))
                    /\ req.type_filling = "ORDER_FILLING_RETURN"

\* C6 witness: a sell stop request was returned, its price the normalized
\* requested price and not the requested price itself.
C6_Witness ==
    /\ Returned("_build_order_request") /\ ~Result.raised
    /\ Arg.o.execucao = "stop" /\ Arg.o.tipo = "venda"
    /\ Result.value.price # Get(Arg.o.preco)
    /\ Result.value.type = ORDER_TYPE_SELL_STOP

-----------------------------------------------------------------------------
(* Properties of validator and builder on one snapshot (SpecSnapshot) *)

\* x lies on the symbol's price grid: normalizing it changes nothing.
OnGrid(sym, x) == _normalize_price(sym, x) = x

\* C11 as stated: for every intent and every fixed snapshot of the symbol's
\* constraints and quote, when _validar_ordem returns an admissible verdict,
\* _build_order_request called with that snapshot returns a request and
\* raises no rejection; and for limit and stop orders both hand the same
\* reference price to the stop-distance check.
C11_Original ==
    Admissible =>
        /\ ~IsNone(built) => ~Get(built).raised
        /\ o.execucao \in {"limite", "stop"} =>
               ref_price(o, tick) = BuilderPrice(o, Get(symbol), tick)

\* C11 failing case: a limit or stop order whose requested price is off the
\* symbol's price grid: _validar_ordem admitted it, measuring the stops from
\* the requested price, and _build_order_request, measuring them from the
\* normalized price, raised the stop-distance rejection on the same snapshot.
C11_Witness ==
    /\ Admissible
    /\ ~IsNone(built) /\ Get(built).raised
    /\ Get(built).status = 400
    /\ Get(Get(built).detail) \in StopsReasons
    /\ o.execucao \in {"limite", "stop"}
    /\ ~OnGrid(Get(symbol), Get(o.preco))
    /\ ref_price(o, tick) # BuilderPrice(o, Get(symbol), tick)

====
